---- MODULE Spec2Model ----
(***************************************************************************)
(* Model of src/main.py: the row reconciliation engine compare_dataframes  *)
(* (lines 42-83) and the Streamlit flow that gates its invocation (lines   *)
(* 13-30 and 121-288).                                                     *)
(*                                                                         *)
(* Text is a sequence of one-character strings, so that the '||'.join of   *)
(* line 45 is a real concatenation.  A cell is [t, v]: t is the type of    *)
(* the value the loader produced ("int" or "str") and v its text, so that  *)
(* str(5) and str("5") are the same text while 5 and "5" are not the same  *)
(* value.  A DataFrame is [columns, index, data]: the column labels, the   *)
(* row labels and, per row, the cells in column order.  Column labels may  *)
(* repeat in a frame, as they do in pandas.                                *)
(***************************************************************************)
EXTENDS Integers, Sequences, FiniteSets, TLC

VARIABLES
    tableBefore,      \* the caller's "before" table, as it was when passed
    tableAfter,       \* the caller's "after" table, as it was when passed
    df_before,        \* compare_dataframes' parameter df_before (the object)
    df_after,         \* compare_dataframes' parameter df_after (the object)
    key_columns,      \* parameter key_columns
    compare_columns,  \* parameter compare_columns
    cols_to_use,      \* local cols_to_use (line 49)
    modified_before,  \* local list modified_before (line 62)
    modified_after,   \* local list modified_after (line 63)
    result,           \* the returned 4-tuple (line 83), or NoResult
    pc,               \* the call: "idle", "start", "returned", "raised"
    file_before,      \* the 'before' uploader's file (line 26), or NoFile
    file_after,       \* the 'after' uploader's file (line 30), or NoFile
    session,          \* st.session_state (lines 14-19)
    checkbox,         \* the confirmation checkbox of line 166, or NoWidget
    key_select,       \* the multiselect of line 180, or NoWidget
    compare_select,   \* the multiselect of line 198, or NoWidget
    stage,            \* what the last run of the script ended on
    report            \* the report of line 251 on the page, or NoReport

engine == <<tableBefore, tableAfter, df_before, df_after, key_columns,
            compare_columns, cols_to_use, modified_before, modified_after,
            result, pc>>

page == <<file_before, file_after, session, checkbox, key_select,
          compare_select, stage, report>>

vars == <<engine, page>>

----------------------------------------------------------------------------
(* Bounds of the model. *)

\* The largest number of rows of the two input tables together.
MaxRows == 4

----------------------------------------------------------------------------
(* Text and cells. *)

\* The separator of line 45.
Sep == <<"|", "|">>

IntCell(d) == [t |-> "int", v |-> d]
StrCell(s) == [t |-> "str", v |-> s]

\* str(value): the text of a cell, whatever its type (lines 45, 72).
Str(c) == c.v

RECURSIVE Join(_, _)
\* sep.join(strs)
Join(strs, sep) ==
    IF Len(strs) = 0 THEN <<>>
    ELSE IF Len(strs) = 1 THEN strs[1]
    ELSE strs[1] \o sep \o Join(Tail(strs), sep)

RECURSIVE SeqFilter(_, _)
\* The subsequence of s at the positions of keep, in order.
SeqFilter(s, keep) ==
    IF Len(s) = 0 THEN <<>>
    ELSE LET rest == SeqFilter(SubSeq(s, 1, Len(s) - 1), keep)
         IN IF Len(s) \in keep THEN Append(rest, s[Len(s)]) ELSE rest

Range(s) == {s[i] : i \in 1..Len(s)}

----------------------------------------------------------------------------
(* The pandas operations compare_dataframes uses. *)

Frame(cols, idx, data) == [columns |-> cols, index |-> idx, data |-> data]

NRows(df) == Len(df.data)

\* The positions of label name in a sequence of labels.
ColPos(cols, name) == {p \in 1..Len(cols) : cols[p] = name}

\* Whether df[names] finds every label (it raises KeyError otherwise).
HasColumns(df, names) == \A i \in 1..Len(names) : ColPos(df.columns, names[i]) # {}

\* df[names] for a list of labels: one output column per listed label, in the
\* order listed, a label listed twice giving two columns.  The frames indexed
\* here (the inputs, with '_key') carry each label once.
SelectColumns(df, names) ==
    LET pos(i) == CHOOSE p \in ColPos(df.columns, names[i]) : TRUE
    IN Frame(names, df.index,
             [r \in 1..NRows(df) |-> [i \in 1..Len(names) |-> df.data[r][pos(i)]]])

\* df[key_columns].astype(str).agg('||'.join, axis=1): per row, the texts of
\* the cells at key_columns joined by the separator.
CompositeKeys(df, names) ==
    LET sel == SelectColumns(df, names)
    IN [r \in 1..NRows(df) |->
           Join([i \in 1..Len(names) |-> Str(sel.data[r][i])], Sep)]

\* df[name] = series: replaces the column labelled name, or appends it.
SetColumn(df, name, series) ==
    IF ColPos(df.columns, name) # {}
    THEN Frame(df.columns, df.index,
               [r \in 1..NRows(df) |->
                   [p \in 1..Len(df.columns) |->
                       IF df.columns[p] = name THEN StrCell(series[r])
                       ELSE df.data[r][p]]])
    ELSE Frame(Append(df.columns, name), df.index,
               [r \in 1..NRows(df) |-> Append(df.data[r], StrCell(series[r]))])

\* df['_key'] as a sequence of texts.
KeyColumn(df) ==
    LET p == CHOOSE q \in ColPos(df.columns, "_key") : TRUE
    IN [r \in 1..NRows(df) |-> Str(df.data[r][p])]

\* FilterRows followed by reset_index(drop=True): the rows kept are relabelled.
FilterRowsRelabelled(df, keep) ==
    Frame(df.columns, [i \in 1..Cardinality(keep \cap (1..NRows(df))) |-> i - 1],
          SeqFilter(df.data, keep))

\* df[mask]: the rows (with their labels) at the positions where mask holds.
FilterRows(df, keep) ==
    Frame(df.columns, SeqFilter(df.index, keep), SeqFilter(df.data, keep))

\* NotIn without its negation: df[df['_key'].isin(other['_key'])].
KeptIn(df, other) ==
    FilterRows(df, {r \in 1..NRows(df) : KeyColumn(df)[r] \in Range(KeyColumn(other))})

\* df[~df['_key'].isin(other['_key'])]
NotIn(df, other) ==
    FilterRows(df, {r \in 1..NRows(df) : KeyColumn(df)[r] \notin Range(KeyColumn(other))})

\* FirstRow with iloc[-1]: the last row bearing key.
LastRow(df, key, cols) ==
    LET hits == FilterRows(df, {r \in 1..NRows(df) : KeyColumn(df)[r] = key})
        sel  == SelectColumns(hits, cols)
    IN [index |-> cols, values |-> sel.data[NRows(sel)], name |-> sel.index[NRows(sel)]]

\* df[df['_key'] == key][cols].iloc[0]: the first row bearing key, as a Series
\* whose index is cols and whose name is the row's label.
FirstRow(df, key, cols) ==
    LET hits == FilterRows(df, {r \in 1..NRows(df) : KeyColumn(df)[r] = key})
        sel  == SelectColumns(hits, cols)
    IN [index |-> cols, values |-> sel.data[1], name |-> sel.index[1]]

NoName == -1

\* str(row[col]).  A label that occurs once in the Series' index gives the
\* cell, and its text; a label that occurs several times gives a Series of
\* the cells, whose text lists them and ends with "Name: <row label>".
StrOfItem(row, col) ==
    LET ps == ColPos(row.index, col)
    IN [lines |-> SeqFilter([p \in 1..Len(row.index) |-> Str(row.values[p])], ps),
        name  |-> IF Cardinality(ps) = 1 THEN NoName ELSE row.name]

\* has_changes without str(): the values themselves are compared.
has_changes_raw(row_before, row_after, cmp) ==
    \E i \in 1..Len(cmp) :
        SeqFilter(row_before.values, ColPos(row_before.index, cmp[i]))
            # SeqFilter(row_after.values, ColPos(row_after.index, cmp[i]))

\* Lines 70-74: whether any compare column's text differs.
has_changes(row_before, row_after, cmp) ==
    \E i \in 1..Len(cmp) : StrOfItem(row_before, cmp[i]) # StrOfItem(row_after, cmp[i])

HasDuplicates(s) == \E i, j \in 1..Len(s) : i # j /\ s[i] = s[j]

\* pd.DataFrame(rows) for a non-empty list of Series sharing one index: it
\* raises when that index repeats a label (the Series cannot be aligned).
CanBuild(rows) == rows = <<>> \/ ~HasDuplicates(rows[1].index)

\* Lines 80-81: pd.DataFrame(rows) if rows else pd.DataFrame(columns=cols).
FrameOfRows(rows, cols) ==
    IF rows = <<>> THEN Frame(cols, <<>>, <<>>)
    ELSE Frame(rows[1].index,
               [i \in 1..Len(rows) |-> rows[i].name],
               [i \in 1..Len(rows) |-> rows[i].values])

----------------------------------------------------------------------------
(* compare_dataframes, lines 42-83. *)

NoResult == [status |-> "none"]

\* Deleted with the two tables exchanged.
DeletedOfAfter(b, a, cols) == SelectColumns(NotIn(a, b), cols)

\* Lines 52-53.
Deleted(b, a, cols) == SelectColumns(NotIn(b, a), cols)

\* Lines 56-57.
Added(b, a, cols) == SelectColumns(NotIn(a, b), cols)

\* Line 60.
common_keys(b, a) == Range(KeyColumn(b)) \cap Range(KeyColumn(a))

\* All the orders in which a set can be iterated.
Orders(S) ==
    {o \in [1..Cardinality(S) -> S] : \A i, j \in 1..Cardinality(S) : i # j => o[i] # o[j]}

RECURSIVE Loop(_, _, _, _, _)
\* Lines 62-78: the for loop over the common keys, visited in the order given.
\* The result is the two lists, modified_before and modified_after.
Loop(order, b, a, cols, cmp) ==
    IF Len(order) = 0 THEN [before |-> <<>>, after |-> <<>>]
    ELSE LET sofar      == Loop(SubSeq(order, 1, Len(order) - 1), b, a, cols, cmp)
             key        == order[Len(order)]
             row_before == FirstRow(b, key, cols)
             row_after  == FirstRow(a, key, cols)
         IN IF has_changes(row_before, row_after, cmp)
            THEN [before |-> Append(sofar.before, row_before),
                  after  |-> Append(sofar.after, row_after)]
            ELSE sofar

\* compare_dataframes(df_before, df_after, key_columns, compare_columns), the
\* whole call.  A label missing from a table raises KeyError, at line 45 or
\* 46 for a key column and at line 53 or 57 for a compare column.  The set of
\* line 60 is iterated in no specified order.
compare_dataframes ==
    /\ pc = "start"
    /\ IF HasColumns(df_before, key_columns) /\ HasColumns(df_after, key_columns)
       THEN \E b \in {SetColumn(df_before, "_key", CompositeKeys(df_before, key_columns))},
               a \in {SetColumn(df_after, "_key", CompositeKeys(df_after, key_columns))},
               cols \in {key_columns \o compare_columns} :
               /\ df_before' = b
               /\ df_after' = a
               /\ cols_to_use' = cols
               /\ IF HasColumns(b, cols) /\ HasColumns(a, cols)
                  THEN \E order \in Orders(common_keys(b, a)) :
                       \E modified \in {Loop(order, b, a, cols, compare_columns)} :
                          /\ modified_before' = modified.before
                          /\ modified_after' = modified.after
                          /\ IF CanBuild(modified.before) /\ CanBuild(modified.after)
                             THEN /\ result' =
                                       [status |-> "ok",
                                        deleted |-> Deleted(b, a, cols),
                                        added |-> Added(b, a, cols),
                                        modified_before |-> FrameOfRows(modified.before, cols),
                                        modified_after |-> FrameOfRows(modified.after, cols)]
                                  /\ pc' = "returned"
                             ELSE /\ pc' = "raised"
                                  /\ UNCHANGED result
                  ELSE /\ pc' = "raised"
                       /\ UNCHANGED <<modified_before, modified_after, result>>
       ELSE /\ pc' = "raised"
            /\ UNCHANGED <<df_before, df_after, cols_to_use,
                           modified_before, modified_after, result>>
    /\ UNCHANGED <<tableBefore, tableAfter, key_columns, compare_columns>>
    /\ UNCHANGED page

----------------------------------------------------------------------------
(* The page: the script of lines 13-30 and 121-288, which Streamlit runs   *)
(* from top to bottom after every interaction.  A widget that a run does   *)
(* not reach loses its state; a widget reached again with the same         *)
(* parameters keeps the value the user gave it, and one reached with other *)
(* parameters starts from its default.                                     *)

NoTable == Frame(<<>>, <<>>, <<>>)
NoFile == [ext |-> "", ok |-> FALSE, table |-> NoTable]
NoWidget == [shown |-> FALSE]
NoReport == [shown |-> FALSE]

\* Lines 14-19.
NewSession == [layout_confirmed |-> FALSE, df_before |-> NoTable, df_after |-> NoTable]

\* read_file, lines 33-39: the table of a file whose name ends in .csv, .xls
\* or .xlsx, None for another name; the parser raises on bad content.
read_file(file) ==
    IF file.ext \in {"csv", "xls", "xlsx"}
    THEN IF file.ok THEN [status |-> "ok", df |-> file.table]
         ELSE [status |-> "raise", df |-> NoTable]
    ELSE [status |-> "none", df |-> NoTable]

\* LayoutsMatch on the numbers of columns only.
SameColumnCount(b, a) == Len(b.columns) = Len(a.columns)

\* Line 162: before_cols == after_cols, two sets of labels.
LayoutsMatch(b, a) == Range(b.columns) = Range(a.columns)

\* Line 196: the columns that are not key columns, in the table's order.
available_compare_cols(df, keys) ==
    SeqFilter(df.columns, {p \in 1..Len(df.columns) : df.columns[p] \notin Range(keys)})

\* The value a widget returns: the user's, when the widget was on the page
\* with the same parameters; its default otherwise.
WidgetValue(widget, params, default) ==
    IF widget.shown /\ widget.params = params THEN widget.value ELSE default

Widget(params, value) == [shown |-> TRUE, params |-> params, value |-> value]

\* One run of the script.  fb, fa: the uploaders' files; sess: the session
\* state; cb, ks, cs: the three widgets as the last run left them, with the
\* user's change; pressed: whether this run follows a press of the button of
\* line 211.  The result is the session state and the widgets after the run,
\* the message the run ended on, and whether it called compare_dataframes.
ScriptRun(fb, fa, sess, cb, ks, cs, pressed) ==
    LET off == [session |-> sess, checkbox |-> NoWidget, key_select |-> NoWidget,
                compare_select |-> NoWidget, stage |-> "upload", invoke |-> FALSE]
        rb == read_file(fb)
        ra == read_file(fa)
        loaded == [sess EXCEPT !.df_before = rb.df, !.df_after = ra.df]
        confirmed == WidgetValue(cb, sess.layout_confirmed, sess.layout_confirmed)
        box == Widget(sess.layout_confirmed, confirmed)
        keys == WidgetValue(ks, rb.df.columns, <<>>)
        keybox == Widget(rb.df.columns, keys)
        available == available_compare_cols(rb.df, keys)
        cmp == WidgetValue(cs, available, available)
        cmpbox == Widget(available, cmp)
    IN IF fb = NoFile \/ fa = NoFile
       THEN \* lines 286-288
            [off EXCEPT !.session = [sess EXCEPT !.layout_confirmed = FALSE]]
       ELSE IF rb.status = "raise" \/ ra.status = "raise"
       THEN \* lines 125-126, 283-285
            [off EXCEPT !.stage = "exception"]
       ELSE IF rb.status = "none" \/ ra.status = "none"
       THEN \* lines 128-129
            [off EXCEPT !.stage = "read_error"]
       ELSE IF ~LayoutsMatch(rb.df, ra.df)
       THEN \* lines 132-133, 269-281
            [off EXCEPT !.session = loaded, !.stage = "mismatch"]
       ELSE IF ~confirmed
       THEN \* lines 162-171
            [off EXCEPT !.session = loaded, !.checkbox = box, !.stage = "confirm"]
       ELSE IF keys = <<>>
       THEN \* lines 172-187, 266-267
            [off EXCEPT !.session = [loaded EXCEPT !.layout_confirmed = TRUE],
                        !.checkbox = box, !.key_select = keybox, !.stage = "need_keys"]
       ELSE IF cmp = <<>>
       THEN \* lines 188-205, 264-265
            [off EXCEPT !.session = [loaded EXCEPT !.layout_confirmed = TRUE],
                        !.checkbox = box, !.key_select = keybox,
                        !.compare_select = cmpbox, !.stage = "need_compare"]
       ELSE \* lines 206-215
            [off EXCEPT !.session = [loaded EXCEPT !.layout_confirmed = TRUE],
                        !.checkbox = box, !.key_select = keybox,
                        !.compare_select = cmpbox,
                        !.stage = IF pressed THEN "comparing" ELSE "ready",
                        !.invoke = pressed]

\* The script run that follows an interaction.  A run that reaches line 213
\* calls compare_dataframes on copies of the two tables.
Rerun(fb, fa, cb, ks, cs, pressed) ==
    \E out \in {ScriptRun(fb, fa, session, cb, ks, cs, pressed)} :
        /\ file_before' = fb
        /\ file_after' = fa
        /\ session' = out.session
        /\ checkbox' = out.checkbox
        /\ key_select' = out.key_select
        /\ compare_select' = out.compare_select
        /\ stage' = out.stage
        /\ report' = NoReport
        /\ IF out.invoke
           THEN /\ tableBefore' = out.session.df_before
                /\ tableAfter' = out.session.df_after
                /\ df_before' = out.session.df_before
                /\ df_after' = out.session.df_after
                /\ key_columns' = out.key_select.value
                /\ compare_columns' = out.compare_select.value
                /\ pc' = "start"
                /\ UNCHANGED <<cols_to_use, modified_before, modified_after, result>>
           ELSE UNCHANGED engine

\* The files a user may upload: two tables of one layout, a table of another
\* layout, a file whose name read_file does not recognise, a file that does
\* not parse.
LayoutA == <<"dept", "val">>
LayoutB == <<"dept", "qty">>

Files ==
    {[ext |-> "csv", ok |-> TRUE,
      table |-> Frame(LayoutA, <<0>>, <<<<StrCell(<<"a">>), IntCell(<<"5">>)>>>>)],
     [ext |-> "xlsx", ok |-> TRUE,
      table |-> Frame(LayoutA, <<0, 1>>, <<<<StrCell(<<"a">>), StrCell(<<"6">>)>>,
                                          <<StrCell(<<"a", "|">>), StrCell(<<"5">>)>>>>)],
     [ext |-> "csv", ok |-> TRUE,
      table |-> Frame(LayoutB, <<0>>, <<<<StrCell(<<"a">>), IntCell(<<"5">>)>>>>)],
     [ext |-> "CSV", ok |-> TRUE, table |-> NoTable],
     [ext |-> "csv", ok |-> FALSE, table |-> NoTable]}

\* What a multiselect over options can return: the options the user picked,
\* in the order picked.
Picks(options) ==
    UNION {{s \in [1..n -> Range(options)] : \A i, j \in 1..n : i # j => s[i] # s[j]}
           : n \in 0..Len(options)}

\* The user uploads, replaces or removes the 'before' file.
SetFileBefore ==
    /\ pc = "idle"
    /\ \E f \in (Files \cup {NoFile}) \ {file_before} :
          Rerun(f, file_after, checkbox, key_select, compare_select, FALSE)

\* The user uploads, replaces or removes the 'after' file.
SetFileAfter ==
    /\ pc = "idle"
    /\ \E f \in (Files \cup {NoFile}) \ {file_after} :
          Rerun(file_before, f, checkbox, key_select, compare_select, FALSE)

\* The user ticks or unticks the confirmation box.
ToggleCheckbox ==
    /\ pc = "idle"
    /\ checkbox.shown
    /\ Rerun(file_before, file_after, [checkbox EXCEPT !.value = ~@],
             key_select, compare_select, FALSE)

\* The user changes the identifier columns.
SelectKeys ==
    /\ pc = "idle"
    /\ key_select.shown
    /\ \E v \in Picks(key_select.params) \ {key_select.value} :
          Rerun(file_before, file_after, checkbox, [key_select EXCEPT !.value = v],
                compare_select, FALSE)

\* The user changes the columns to compare.
SelectCompare ==
    /\ pc = "idle"
    /\ compare_select.shown
    /\ \E v \in Picks(compare_select.params) \ {compare_select.value} :
          Rerun(file_before, file_after, checkbox, key_select,
                [compare_select EXCEPT !.value = v], FALSE)

\* The user presses Compare Files, which the last run put on the page.
PressCompare ==
    /\ pc = "idle"
    /\ stage \in {"ready", "compared"}
    /\ Rerun(file_before, file_after, checkbox, key_select, compare_select, TRUE)

\* Lines 217-263 after the call returns (the summary and the report), lines
\* 283-285 after it raises.
AfterCompare ==
    /\ pc \in {"returned", "raised"}
    /\ IF pc = "returned"
       THEN /\ stage' = "compared"
            /\ report' = [shown |-> TRUE,
                          deleted |-> NRows(result.deleted),
                          added |-> NRows(result.added),
                          modified |-> NRows(result.modified_before)]
       ELSE /\ stage' = "exception"
            /\ report' = NoReport
    /\ pc' = "idle"
    /\ tableBefore' = NoTable
    /\ tableAfter' = NoTable
    /\ df_before' = NoTable
    /\ df_after' = NoTable
    /\ key_columns' = <<>>
    /\ compare_columns' = <<>>
    /\ cols_to_use' = <<>>
    /\ modified_before' = <<>>
    /\ modified_after' = <<>>
    /\ result' = NoResult
    /\ UNCHANGED <<file_before, file_after, session, checkbox, key_select, compare_select>>

\* The page as a browser first shows it: no file, nothing selected.
PageAtStart ==
    /\ file_before = NoFile
    /\ file_after = NoFile
    /\ session = NewSession
    /\ checkbox = NoWidget
    /\ key_select = NoWidget
    /\ compare_select = NoWidget
    /\ stage = "upload"
    /\ report = NoReport

InitUI ==
    /\ PageAtStart
    /\ tableBefore = NoTable
    /\ tableAfter = NoTable
    /\ df_before = NoTable
    /\ df_after = NoTable
    /\ key_columns = <<>>
    /\ compare_columns = <<>>
    /\ cols_to_use = <<>>
    /\ modified_before = <<>>
    /\ modified_after = <<>>
    /\ result = NoResult
    /\ pc = "idle"

NextUI ==
    \/ SetFileBefore
    \/ SetFileAfter
    \/ ToggleCheckbox
    \/ SelectKeys
    \/ SelectCompare
    \/ PressCompare
    \/ compare_dataframes
    \/ AfterCompare

\* The page and, behind its button, the engine.
SpecUI == InitUI /\ [][NextUI]_vars

----------------------------------------------------------------------------
(* The inputs of the engine. *)

\* The columns of the tables.
Columns == <<"dept", "empId", "val">>

DeptValues == {StrCell(<<"a">>), StrCell(<<"a", "|">>)}
EmpValues == {StrCell(<<"a">>), StrCell(<<"|", "a">>)}
ValValues == {IntCell(<<"5">>), StrCell(<<"5">>), StrCell(<<"6">>)}

\* Rows whose compared value varies, in type and in text.
RowsPlain == {<<d, StrCell(<<"a">>), v>> : d \in DeptValues, v \in ValValues}

\* Rows whose two key values vary, with and without the separator's character.
RowsSeparator == {<<d, e, StrCell(<<"5">>)>> : d \in DeptValues, e \in EmpValues}

\* The tables of n rows, with the labels 0, 1, ... a loader gives.
Tables(cols, rows, n) == {Frame(cols, [i \in 1..n |-> i - 1], d) : d \in [1..n -> rows]}

\* Selections that meet the engine's preconditions on Columns: one key column,
\* two key columns, and compare columns that overlap the key columns.
OneKey == [key |-> <<"dept">>, cmp |-> <<"val">>]
TwoKeys == [key |-> <<"dept", "empId">>, cmp |-> <<"val">>]
Overlap == [key |-> <<"dept">>, cmp |-> <<"dept", "val">>]

\* The rows the two tables are made of, and the selections tried on them.
Families ==
    {[rows |-> RowsPlain, selections |-> {OneKey, TwoKeys, Overlap}],
     [rows |-> RowsSeparator, selections |-> {TwoKeys}]}

\* The state at the call compare_dataframes(before, after, key, cmp).
AtCall(before, after, key, cmp) ==
    /\ tableBefore = before
    /\ tableAfter = after
    /\ key_columns = key
    /\ compare_columns = cmp
    /\ df_before = before
    /\ df_after = after
    /\ cols_to_use = <<>>
    /\ modified_before = <<>>
    /\ modified_after = <<>>
    /\ result = NoResult
    /\ pc = "start"
    /\ PageAtStart

\* The engine called on any two tables over Columns, of at least one row each
\* and at most MaxRows rows together, and any valid selection.  (What line
\* 45's row-wise agg returns for a table without rows is decided inside
\* pandas, not by this code: such tables are left out.)
Init ==
    \E family \in Families :
    \E nb \in 1..(MaxRows - 1) :
    \E na \in 1..(MaxRows - nb) :
    \E before \in Tables(Columns, family.rows, nb), after \in Tables(Columns, family.rows, na) :
    \E sel \in family.selections :
        AtCall(before, after, sel.key, sel.cmp)

Next == compare_dataframes

Spec == Init /\ [][Next]_vars

\* Tables of another layout, and selections that break a precondition of the
\* engine: no compare column, a column that no table has.  (What line 45's
\* agg returns for no key column at all is decided inside pandas: the empty
\* key selection is left out.)
ShortColumns == <<"dept", "val">>
RowsShort == {<<d, StrCell(<<"5">>)>> : d \in DeptValues}

NoCompare == [key |-> <<"dept">>, cmp |-> <<>>]
UnknownCompare == [key |-> <<"dept">>, cmp |-> <<"qty">>]
UnknownKey == [key |-> <<"qty">>, cmp |-> <<"val">>]

\* The engine called on any two tables, of one layout or of two, and any
\* selection, valid or not.
InitAny ==
    \E nb \in 1..(MaxRows - 1) :
    \E na \in 1..(MaxRows - nb) :
    \E before \in Tables(Columns, RowsSeparator, nb),
       after \in Tables(Columns, RowsSeparator, na) \cup Tables(ShortColumns, RowsShort, na) :
    \E sel \in {OneKey, TwoKeys, NoCompare, UnknownCompare, UnknownKey} :
        AtCall(before, after, sel.key, sel.cmp)

SpecAny == InitAny /\ [][Next]_vars

----------------------------------------------------------------------------
(* The notions the claims are stated in, over the caller's tables. *)

Returned == pc = "returned"

RowsOf(t) == 1..NRows(t)

\* The cell of row r of table t in the column labelled c.
CellAt(t, r, c) == t.data[r][CHOOSE p \in ColPos(t.columns, c) : TRUE]

\* The composite key of row r of table t: the texts of its values at the key
\* columns, in order, joined by the separator.
KeyOf(t, r) == Join([i \in 1..Len(key_columns) |-> Str(CellAt(t, r, key_columns[i]))], Sep)

KeysOf(t) == {KeyOf(t, r) : r \in RowsOf(t)}

\* Row r is the first row of t bearing its composite key.
IsFirstBearer(t, r) == \A q \in RowsOf(t) : q < r => KeyOf(t, q) # KeyOf(t, r)

\* The first row of t bearing key k.
FirstBearer(t, k) == CHOOSE r \in RowsOf(t) : KeyOf(t, r) = k /\ IsFirstBearer(t, r)

\* The texts of rows r of t and q of u differ in at least one compare column.
TextsDiffer(t, r, u, q) ==
    \E i \in 1..Len(compare_columns) :
        Str(CellAt(t, r, compare_columns[i])) # Str(CellAt(u, q, compare_columns[i]))

IsAscending(s) == \A i, j \in 1..Len(s) : i < j => s[i] < s[j]

\* Row i of output frame f holds, in each of its columns, the cell that the
\* row of table t with the same label holds in the column of that label.
RowIsProjection(f, i, t) ==
    /\ Len(f.data[i]) = Len(f.columns)
    /\ \A j \in 1..Len(f.columns) : f.data[i][j] = CellAt(t, f.index[i] + 1, f.columns[j])

\* Output frame f is exactly the rows `rows` of table t, in t's order.
IsRowsOf(f, rows, t) ==
    /\ Len(f.index) = Cardinality(rows)
    /\ Len(f.data) = Len(f.index)
    /\ IsAscending(f.index)
    /\ Range(f.index) = {r - 1 : r \in rows}
    /\ \A i \in 1..Len(f.index) : RowIsProjection(f, i, t)

----------------------------------------------------------------------------
(* C1: whenever compare_dataframes returns, its Deleted output is exactly  *)
(* the rows of tableBefore whose composite key is the composite key of no  *)
(* row of tableAfter, in tableBefore's order.                              *)
C1_DeletedExact ==
    Returned =>
        IsRowsOf(result.deleted,
                 {r \in RowsOf(tableBefore) : KeyOf(tableBefore, r) \notin KeysOf(tableAfter)},
                 tableBefore)

\* Two deleted rows share one key, and tableAfter is not empty.
C1_Witness ==
    /\ Returned
    /\ NRows(tableAfter) > 0
    /\ NRows(tableBefore) = 2
    /\ Len(result.deleted.index) = 2
    /\ KeyOf(tableBefore, 1) = KeyOf(tableBefore, 2)

(* C2: whenever compare_dataframes returns, its Added output is exactly    *)
(* the rows of tableAfter whose composite key is the composite key of no   *)
(* row of tableBefore, in tableAfter's order.                              *)
C2_AddedExact ==
    Returned =>
        IsRowsOf(result.added,
                 {r \in RowsOf(tableAfter) : KeyOf(tableAfter, r) \notin KeysOf(tableBefore)},
                 tableAfter)

\* One row of tableAfter is added and the other is not.
C2_Witness ==
    /\ Returned
    /\ NRows(tableAfter) = 2
    /\ Len(result.added.index) = 1
    /\ result.added.index[1] = 1

InDeleted(r) == r - 1 \in Range(result.deleted.index)
InModifiedBefore(r) == r - 1 \in Range(result.modified_before.index)
MatchedBefore(r) == KeyOf(tableBefore, r) \in KeysOf(tableAfter)

\* Row r of tableBefore is matched and unmodified: the row of tableAfter its
\* key matches has the same text in every compare column.
UnmodifiedBefore(r) ==
    /\ MatchedBefore(r)
    /\ ~TextsDiffer(tableBefore, r,
                    tableAfter, FirstBearer(tableAfter, KeyOf(tableBefore, r)))

\* The same for row q of tableAfter.
InAdded(q) == q - 1 \in Range(result.added.index)
InModifiedAfter(q) == q - 1 \in Range(result.modified_after.index)
MatchedAfter(q) == KeyOf(tableAfter, q) \in KeysOf(tableBefore)

UnmodifiedAfter(q) ==
    /\ MatchedAfter(q)
    /\ ~TextsDiffer(tableBefore, FirstBearer(tableBefore, KeyOf(tableAfter, q)),
                    tableAfter, q)

ExactlyOne(x, y, z) == (x /\ ~y /\ ~z) \/ (~x /\ y /\ ~z) \/ (~x /\ ~y /\ z)

(* C4, as stated: whenever compare_dataframes returns, every row of        *)
(* tableBefore is in exactly one of Deleted, matched-unmodified and        *)
(* matched-modified, and every row of tableAfter in exactly one of Added,  *)
(* matched-unmodified and matched-modified, also when a key is borne by    *)
(* several rows of a table.                                                *)
C4_PartitionAllRows ==
    Returned =>
        /\ \A r \in RowsOf(tableBefore) :
              ExactlyOne(InDeleted(r), UnmodifiedBefore(r), InModifiedBefore(r))
        /\ \A q \in RowsOf(tableAfter) :
              ExactlyOne(InAdded(q), UnmodifiedAfter(q), InModifiedAfter(q))

(* C4, as amended: whenever compare_dataframes returns, every row that is  *)
(* the first of its table to bear its key, and every row whose key is      *)
(* absent from the other table, is in exactly one of the three classes; a  *)
(* later row of a key present in both tables is in none of the outputs.    *)
C4_PartitionFirstBearers ==
    Returned =>
        /\ \A r \in RowsOf(tableBefore) :
              IF IsFirstBearer(tableBefore, r) \/ ~MatchedBefore(r)
              THEN ExactlyOne(InDeleted(r), UnmodifiedBefore(r), InModifiedBefore(r))
              ELSE ~InDeleted(r) /\ ~InModifiedBefore(r)
        /\ \A q \in RowsOf(tableAfter) :
              IF IsFirstBearer(tableAfter, q) \/ ~MatchedAfter(q)
              THEN ExactlyOne(InAdded(q), UnmodifiedAfter(q), InModifiedAfter(q))
              ELSE ~InAdded(q) /\ ~InModifiedAfter(q)

\* The second of two rows of tableBefore bearing one key differs from the row
\* of tableAfter that key matches, the first does not, and nothing is emitted.
C4_Witness ==
    /\ Returned
    /\ NRows(tableBefore) = 2
    /\ KeyOf(tableBefore, 1) = KeyOf(tableBefore, 2)
    /\ MatchedBefore(2)
    /\ UnmodifiedBefore(1)
    /\ ~UnmodifiedBefore(2)
    /\ ~InDeleted(2) /\ ~InModifiedBefore(2)

\* The compare columns that are not key columns, in the order given.
NewCompareColumns ==
    SeqFilter(compare_columns,
              {i \in 1..Len(compare_columns) : compare_columns[i] \notin Range(key_columns)})

(* C5: whenever compare_dataframes returns, the columns of each of its     *)
(* four outputs are the key columns, in the order given, followed by the   *)
(* compare columns that are not key columns, no label occurring twice.     *)
C5_OutputColumns ==
    Returned =>
        \A f \in {result.deleted, result.added,
                  result.modified_before, result.modified_after} :
            /\ f.columns = key_columns \o NewCompareColumns
            /\ \A i, j \in 1..Len(f.columns) : i # j => f.columns[i] # f.columns[j]

(* C6: whenever compare_dataframes returns, the two tables it was passed   *)
(* have the columns and the rows they had when it was called.              *)
C6_ArgumentsUnchanged ==
    Returned => df_before = tableBefore /\ df_after = tableAfter

(* C7: whenever compare_dataframes returns, it has matched a row of        *)
(* tableBefore and a row of tableAfter (given them one '_key') if and only *)
(* if the two rows hold equal values in every key column.                  *)
C7_MatchIffKeyValuesEqual ==
    Returned =>
        \A r \in RowsOf(tableBefore), q \in RowsOf(tableAfter) :
            KeyColumn(df_before)[r] = KeyColumn(df_after)[q]
                <=> \A i \in 1..Len(key_columns) :
                        CellAt(tableBefore, r, key_columns[i])
                            = CellAt(tableAfter, q, key_columns[i])

(* C10: whenever compare_dataframes returns from a call on two identical   *)
(* tables, Deleted, Added, ModifiedBefore and ModifiedAfter are all empty. *)
C10_NoOp ==
    (Returned /\ tableBefore = tableAfter) =>
        \A f \in {result.deleted, result.added,
                  result.modified_before, result.modified_after} :
            Len(f.index) = 0 /\ Len(f.data) = 0

\* The identical tables hold two rows that bear one key and differ in a
\* compare column.
C10_Witness ==
    /\ Returned
    /\ tableBefore = tableAfter
    /\ NRows(tableBefore) = 2
    /\ KeyOf(tableBefore, 1) = KeyOf(tableBefore, 2)
    /\ TextsDiffer(tableBefore, 1, tableBefore, 2)
    /\ NRows(result.deleted) = 0

\* The preconditions of the engine: a non-empty key selection and a non-empty
\* compare selection, every selected column in both tables, and the two
\* tables of one column set.
ValidInput ==
    /\ key_columns # <<>>
    /\ compare_columns # <<>>
    /\ Range(key_columns) \cup Range(compare_columns)
           \subseteq Range(tableBefore.columns) \cap Range(tableAfter.columns)
    /\ Range(tableBefore.columns) = Range(tableAfter.columns)

(* C9: a call of compare_dataframes that breaks a precondition fails: it   *)
(* does not return Deleted, Added and Modified outputs.                    *)
C9_InvalidInputFails ==
    (pc \in {"returned", "raised"} /\ ~ValidInput) => (pc = "raised" /\ result = NoResult)

\* What the page must hold for compare_dataframes to run: both files, read
\* into two tables of one column set, the confirmation box ticked, and a
\* non-empty value in each of the two selections.
Gate ==
    /\ file_before # NoFile
    /\ file_after # NoFile
    /\ read_file(file_before).status = "ok"
    /\ read_file(file_after).status = "ok"
    /\ Range(read_file(file_before).df.columns) = Range(read_file(file_after).df.columns)
    /\ checkbox.shown /\ checkbox.value
    /\ session.layout_confirmed
    /\ key_select.shown /\ key_select.value # <<>>
    /\ compare_select.shown /\ compare_select.value # <<>>

\* Both files are read into tables, of different column sets.
LayoutMismatch ==
    /\ file_before # NoFile
    /\ file_after # NoFile
    /\ read_file(file_before).status = "ok"
    /\ read_file(file_after).status = "ok"
    /\ Range(read_file(file_before).df.columns) # Range(read_file(file_after).df.columns)

(* C8: in every state of the page, compare_dataframes is running or its    *)
(* report is shown only if both files are loaded, their column sets are    *)
(* equal, the layout is confirmed and the key and compare selections are   *)
(* non-empty, the call being made on those tables and selections; and      *)
(* while the layouts differ neither selection is on the page.              *)
C8_CompareIsGated ==
    /\ (pc # "idle" \/ report.shown) => Gate
    /\ pc # "idle" =>
           /\ tableBefore = read_file(file_before).df
           /\ tableAfter = read_file(file_after).df
           /\ key_columns = key_select.value
           /\ compare_columns = compare_select.value
    /\ LayoutMismatch =>
           /\ stage = "mismatch"
           /\ ~key_select.shown /\ ~compare_select.shown
           /\ pc = "idle" /\ ~report.shown

\* A report is on the page, of one modified row and one added row.
C8_Witness ==
    /\ report.shown
    /\ report.modified = 1
    /\ report.added = 1

====
